---- MODULE Spec2Model ----
(***************************************************************************)
(* A state-machine model of analyze_log (openmm_ramd/analyze/analyze_log.py):*)
(* the orchestration that parses RAMD log files, merges their run metadata, *)
(* condenses the fragments, builds the milestone grid, bins the fragments   *)
(* by the xi value of their first frame, builds one milestoning model and   *)
(* time profile per bin and hands the stacked profiles to sigma-RAMD.       *)
(*                                                                         *)
(* Real numbers are exact rationals.  A xi value is the numerator of a      *)
(* fraction over XiDen, a bin boundary is a pair <<numerator, denominator>>,*)
(* and the comparisons are made by cross multiplication.  A timeStep is an  *)
(* integer number of femtoseconds and a CV value an integer.                *)
(*                                                                         *)
(* parser.py, milestoning.py and sigma_ramd.py are separate modules: what   *)
(* they return is modelled from their described interface (the parser       *)
(* returns any fragments and metadata; the matrices of a model and the time *)
(* estimate are kept as terms over their arguments).                        *)
(***************************************************************************)
EXTENDS Integers, Sequences, FiniteSets, TLC

\* ------------------------------------------------------------------ bounds
MaxFiles == 2
MaxFrags == 2
MaxXiBins == 2
MaxMilestones == 2
XiDen == 2

\* The value of a name that holds None.
None == -1

\* The inputs the external log parser may report.
\* xi numerators over XiDen: a value below -1.0, -1.0, an interior value,
\* 0.0, 1.0 and a value above 1.0
XiVals == {-(XiDen + 1), -XiDen, -1, 0, XiDen, XiDen + 1}
\* <<forceOutFreq, forceRAMD, timeStep>>: one run and the runs that differ
\* from it in one value
RunMetadata == {<<50, 14, 2>>, <<25, 14, 2>>, <<50, 15, 2>>, <<50, 14, 1>>}

VARIABLES
    ramd_log_file_list,   \* the number of log files of the call
    num_milestones,
    num_xi_bins,
    xi_bins_ranges,
    trajectory_list,
    trajectories,         \* the fragments of the file parsed last
    bound,                \* whether the name trajectories is bound yet
    forceOutFreq,
    forceRAMD,
    timeStep,
    file_idx,             \* position of the loop over the log files
    one_dim_trajs,
    milestones,
    min_location,
    max_location,
    starting_cv_val,
    xi_bins,
    traj_idx,             \* position of the binning loop
    frame_time,
    xi_bin_time_profiles,
    bin_idx,              \* number of iterations of the per-bin loop done
    calc,                 \* the arguments the sigma-RAMD object was built with
    time_estimate,
    pc,
    err,
    \* history of the run, read by the properties only
    reported,             \* the metadata the parser returned, per call
    parsed,               \* the fragments the parser returned, per call
    condensed_arg,        \* the argument of condense_trajectories
    grid_ret,             \* what uniform_milestone_locations returned
    model_calls,          \* the arguments of each make_milestoning_model call
    slab_writes,          \* the slab indices written, in order
    calls                 \* the stages invoked, in order

vars == <<ramd_log_file_list, num_milestones, num_xi_bins, xi_bins_ranges,
          trajectory_list, trajectories, bound, forceOutFreq, forceRAMD,
          timeStep, file_idx, one_dim_trajs, milestones, min_location,
          max_location, starting_cv_val, xi_bins, traj_idx, frame_time,
          xi_bin_time_profiles, bin_idx, calc, time_estimate, pc, err,
          reported, parsed, condensed_arg, grid_ret, model_calls,
          slab_writes, calls>>

parse_vars == <<trajectory_list, trajectories, bound, forceOutFreq, forceRAMD,
                timeStep, file_idx, reported, parsed>>
grid_vars == <<milestones, min_location, max_location, starting_cv_val,
               grid_ret>>
bin_vars == <<xi_bins, traj_idx>>
model_vars == <<frame_time, xi_bin_time_profiles, bin_idx, model_calls,
                slab_writes>>
arg_vars == <<ramd_log_file_list, num_milestones, num_xi_bins>>

\* ----------------------------------------------------------------- helpers
\* a <= b for rationals <<numerator, denominator>> with positive denominators
LE(a, b) == a[1] * b[2] <= b[1] * a[2]

Xi(n) == <<n, XiDen>>

\* np.linspace(-1.0, 1.0, num), indexed from 0 as the array is
Linspace(num) ==
    LET div == IF num > 1 THEN num - 1 ELSE 1
    IN  [k \in 0..(num - 1) |-> <<-div + 2 * k, div>>]

RECURSIVE Concat(_)
Concat(ss) == IF ss = <<>> THEN <<>> ELSE Head(ss) \o Concat(Tail(ss))

SetMin(S) == CHOOSE x \in S : \A y \in S : x <= y
SetMax(S) == CHOOSE x \in S : \A y \in S : x >= y

\* ------------------------------------------------------ external modules
\* The CV trace of fragment t of the file at position f: one frame for the
\* first fragment of a file, two for the others, whose second frame lies
\* below the first; the traces of different fragments differ.
CVTrace(f, t) == IF t = 1 THEN <<f + 1>> ELSE <<f + t, f>>

\* What parser.parse_ramd_log_file may return for the file at position f when
\* room fragments may still be read: a sequence of fragments, each with the
\* CV trace of its frames and their xi values (the xi of a later frame is
\* the first one mirrored, so that it differs from it).  The id of a
\* fragment stands for the identity of the object.
ParsedFragments(f, room) ==
    UNION {{[t \in 1..m |->
               [id |-> <<f, t>>,
                cvs |-> CVTrace(f, t),
                xis |-> [k \in 1..Len(CVTrace(f, t)) |->
                            IF k = 1 THEN x[t] ELSE -x[t]]]] :
               x \in [1..m -> XiVals]} : m \in 0..room}

\* parser.condense_trajectories: one sequence of (cv, xi) frames per fragment,
\* in the order given.
CondenseTrajectories(trajs) ==
    [t \in 1..Len(trajs) |->
        [id |-> trajs[t].id,
         frames |-> [k \in 1..Len(trajs[t].cvs) |->
                        <<trajs[t].cvs[k], Xi(trajs[t].xis[k])>>]]]

AllCVs(trajs) ==
    UNION {{trajs[t].frames[k][1] : k \in 1..Len(trajs[t].frames)} :
              t \in 1..Len(trajs)}

\* milestoning.uniform_milestone_locations on a non-empty population with at
\* least two milestones: n equally spaced thresholds from the least to the
\* greatest CV of any frame, and the CV of the first frame of the first
\* fragment.
UniformMilestoneLocations(trajs, n) ==
    LET lo == SetMin(AllCVs(trajs))
        hi == SetMax(AllCVs(trajs))
    IN  [milestones |-> [m \in 1..n |->
                            <<lo * (n - 1) + (hi - lo) * (m - 1), n - 1>>],
         min_location |-> lo,
         max_location |-> hi,
         starting_cv_val |-> trajs[1].frames[1][1]]

\* The inputs uniform_milestone_locations rejects.
GridUndefined(trajs, n) == n < 2 \/ Len(trajs) < 1

\* np.zeros((n, n)) and any other all-zero matrix
Zeros == [zero |-> TRUE, of |-> <<>>]

\* milestoning.make_milestoning_model: the matrices of a bin, as a term over
\* the arguments; a bin without fragments yields all-zero matrices.
MakeMilestoningModel(xi_bin_trajs, ms, ft, n) ==
    LET m == IF xi_bin_trajs = <<>> THEN Zeros
             ELSE [zero |-> FALSE, of |-> <<xi_bin_trajs, ms, ft, n>>]
    IN  [count_matrix |-> m, time_vector |-> m, rate_matrix |-> m,
         transition_matrix |-> m]

\* milestoning.make_time_profiles
MakeTimeProfiles(transition_matrix, time_vector, n) ==
    IF transition_matrix.zero THEN Zeros
    ELSE [zero |-> FALSE, of |-> transition_matrix.of]

\* sigma_ramd.functional_expansion_1d_ramd(...).make_second_order_time_estimate()
MakeSecondOrderTimeEstimate(c) == [estimate_of |-> c]

\* ------------------------------------------------------------------- Init
Init ==
    /\ ramd_log_file_list \in 0..MaxFiles
    /\ num_milestones \in 1..MaxMilestones
    /\ num_xi_bins \in 0..MaxXiBins
    /\ xi_bins_ranges = <<>>
    /\ trajectory_list = <<>>
    /\ trajectories = <<>>
    /\ bound = FALSE
    /\ forceOutFreq = None
    /\ forceRAMD = None
    /\ timeStep = None
    /\ file_idx = 0
    /\ one_dim_trajs = <<>>
    /\ milestones = <<>>
    /\ min_location = None
    /\ max_location = None
    /\ starting_cv_val = None
    /\ xi_bins = <<>>
    /\ traj_idx = 0
    /\ frame_time = None
    /\ xi_bin_time_profiles = <<>>
    /\ bin_idx = 0
    /\ calc = <<>>
    /\ time_estimate = <<>>
    /\ pc = "begin"
    /\ err = "none"
    /\ reported = <<>>
    /\ parsed = <<>>
    /\ condensed_arg = <<>>
    /\ grid_ret = <<>>
    /\ model_calls = <<>>
    /\ slab_writes = <<>>
    /\ calls = <<>>

\* ---------------------------------------------------------------- actions
\* lines 22-29
Begin ==
    /\ pc = "begin"
    /\ xi_bins_ranges' = Linspace(num_xi_bins + 1)
    /\ trajectory_list' = <<>>
    /\ forceOutFreq' = None
    /\ forceRAMD' = None
    /\ timeStep' = None
    /\ pc' = "parse"
    /\ UNCHANGED <<arg_vars, trajectories, bound, file_idx, reported, parsed,
                   one_dim_trajs, condensed_arg, grid_vars, bin_vars,
                   model_vars, calc, time_estimate, err, calls>>

\* The comparison with the assert on forceRAMD left out.
FirstDifferenceNoForce(f, r, t) ==
    IF forceOutFreq /= f THEN "forceOutFreq"
    ELSE IF timeStep /= t THEN "timeStep"
    ELSE "none"

\* The three assert statements of lines 38-40, in order: the name of the
\* first value that differs, or "none".
FirstDifference(f, r, t) ==
    IF forceOutFreq /= f THEN "forceOutFreq"
    ELSE IF forceRAMD /= r THEN "forceRAMD"
    ELSE IF timeStep /= t THEN "timeStep"
    ELSE "none"

\* lines 30-42, one iteration of the loop over the log files
ParseLogFile ==
    /\ pc = "parse"
    /\ file_idx < ramd_log_file_list
    /\ \E trajs \in ParsedFragments(file_idx, MaxFrags - Len(trajectory_list)),
          md \in RunMetadata :
          LET forceOutFreq_ == md[1]
              forceRAMD_ == md[2]
              timeStep_ == md[3]
          IN
          /\ trajectories' = trajs
          /\ bound' = TRUE
          /\ parsed' = Append(parsed, trajs)
          /\ reported' = Append(reported, md)
          /\ calls' = Append(calls, <<"parse", file_idx>>)
          /\ IF forceOutFreq = None
             THEN /\ forceOutFreq' = forceOutFreq_
                  /\ forceRAMD' = forceRAMD_
                  /\ timeStep' = timeStep_
                  /\ trajectory_list' = trajectory_list \o trajs
                  /\ file_idx' = file_idx + 1
                  /\ UNCHANGED <<pc, err>>
             ELSE IF FirstDifference(forceOutFreq_, forceRAMD_, timeStep_) = "none"
             THEN /\ trajectory_list' = trajectory_list \o trajs
                  /\ file_idx' = file_idx + 1
                  /\ UNCHANGED <<forceOutFreq, forceRAMD, timeStep, pc, err>>
             ELSE /\ pc' = "error"
                  /\ err' = "AssertionError"
                  /\ UNCHANGED <<forceOutFreq, forceRAMD, timeStep,
                                 trajectory_list, file_idx>>
    /\ UNCHANGED <<arg_vars, xi_bins_ranges, one_dim_trajs, condensed_arg,
                   grid_vars, bin_vars, model_vars, calc, time_estimate>>

\* line 53: the argument handed to parser.condense_trajectories
CondenseArgument == trajectories

\* line 53
Condense ==
    /\ pc = "parse"
    /\ file_idx = ramd_log_file_list
    /\ IF bound
       THEN /\ condensed_arg' = CondenseArgument
            /\ one_dim_trajs' = CondenseTrajectories(CondenseArgument)
            /\ calls' = Append(calls, <<"condense", 0>>)
            /\ pc' = "grid"
            /\ UNCHANGED err
       ELSE /\ pc' = "error"
            /\ err' = "UnboundLocalError"
            /\ UNCHANGED <<condensed_arg, one_dim_trajs, calls>>
    /\ UNCHANGED <<arg_vars, xi_bins_ranges, parse_vars, grid_vars, bin_vars,
                   model_vars, calc, time_estimate>>

\* lines 56-61
BuildGrid ==
    /\ pc = "grid"
    /\ calls' = Append(calls, <<"grid", 0>>)
    /\ IF GridUndefined(one_dim_trajs, num_milestones)
       THEN /\ pc' = "error"
            /\ err' = "ConfigurationError"
            /\ UNCHANGED <<grid_vars, xi_bins>>
       ELSE LET g == UniformMilestoneLocations(one_dim_trajs, num_milestones)
            IN  /\ grid_ret' = g
                /\ milestones' = g.milestones
                /\ min_location' = g.min_location
                /\ max_location' = g.max_location
                /\ starting_cv_val' = g.starting_cv_val
                /\ xi_bins' = [j \in 0..(num_xi_bins - 1) |-> <<>>]
                /\ pc' = "bin"
                /\ UNCHANGED err
    /\ UNCHANGED <<arg_vars, xi_bins_ranges, parse_vars, one_dim_trajs,
                   condensed_arg, traj_idx, model_vars, calc, time_estimate>>

\* The membership test with the upper end left out.
InIntervalHalfOpen(traj_xi, j) ==
    /\ LE(xi_bins_ranges[j], traj_xi)
    /\ ~LE(xi_bins_ranges[j + 1], traj_xi)

\* lines 67-68: the membership test of interval j
InInterval(traj_xi, j) ==
    /\ LE(xi_bins_ranges[j], traj_xi)
    /\ LE(traj_xi, xi_bins_ranges[j + 1])

\* The scan without the break: the last interval that matches wins.
ScanBinsNoBreak(traj_xi, j) ==
    LET S == {k \in j..(num_xi_bins - 1) :
                 /\ LE(xi_bins_ranges[k], traj_xi)
                 /\ LE(traj_xi, xi_bins_ranges[k + 1])}
    IN  IF S = {} THEN -1 ELSE SetMax(S)

\* lines 65-71: the scan from interval j on; the index of the first interval
\* that holds traj_xi, or -1 when found_bin stays False
RECURSIVE ScanBins(_, _)
ScanBins(traj_xi, j) ==
    IF j >= num_xi_bins THEN -1
    ELSE IF InInterval(traj_xi, j) THEN j
    ELSE ScanBins(traj_xi, j + 1)

\* lines 63-74, one iteration of the loop over one_dim_trajs
BinTrajectory ==
    /\ pc = "bin"
    /\ traj_idx < Len(one_dim_trajs)
    /\ LET trajectory == one_dim_trajs[traj_idx + 1]
           traj_xi == trajectory.frames[1][2]
           j == ScanBins(traj_xi, 0)
       IN  /\ calls' = Append(calls, <<"bin", traj_idx>>)
           /\ IF j >= 0
              THEN /\ xi_bins' = [xi_bins EXCEPT ![j] = Append(@, trajectory)]
                   /\ traj_idx' = traj_idx + 1
                   /\ UNCHANGED <<pc, err>>
              ELSE /\ pc' = "error"
                   /\ err' = "Exception"
                   /\ UNCHANGED <<xi_bins, traj_idx>>
    /\ UNCHANGED <<arg_vars, xi_bins_ranges, parse_vars, one_dim_trajs,
                   condensed_arg, grid_vars, model_vars, calc, time_estimate>>

\* lines 76-77
InitTimeProfiles ==
    /\ pc = "bin"
    /\ traj_idx = Len(one_dim_trajs)
    /\ frame_time' = timeStep * forceOutFreq
    /\ xi_bin_time_profiles' = [i \in 0..(num_xi_bins - 1) |-> Zeros]
    /\ pc' = "model"
    /\ UNCHANGED <<arg_vars, xi_bins_ranges, parse_vars, one_dim_trajs,
                   condensed_arg, grid_vars, bin_vars, bin_idx, model_calls,
                   slab_writes, calc, time_estimate, err, calls>>

\* lines 81-88: the slab the body of the per-bin loop computes for bin i
TimeProfileOfBin(i) ==
    LET xi_bin_trajs == xi_bins[i]
        model == MakeMilestoningModel(xi_bin_trajs, milestones, frame_time,
                                      num_milestones)
    IN  MakeTimeProfiles(model.transition_matrix, model.time_vector,
                         num_milestones)

\* The store with a shared accumulator: the profile of the bin before is
\* carried into the slab.
StoreSlabCarried(profiles, i) ==
    [profiles EXCEPT ![i] =
        IF i > 0 /\ ~profiles[i - 1].zero THEN profiles[i - 1]
        ELSE IF xi_bins[i] = <<>> THEN Zeros
        ELSE [zero |-> FALSE,
              of |-> <<xi_bins[i], milestones, frame_time, num_milestones>>]]

\* line 88: the array after the body of the loop ran for bin i
StoreSlab(profiles, i) == [profiles EXCEPT ![i] = TimeProfileOfBin(i)]

\* The body of the loop with a bin that holds nothing passed over.
ModelIterationSkipEmpty(i) ==
    /\ IF xi_bins[i] = <<>>
       THEN UNCHANGED <<model_calls, xi_bin_time_profiles, calls>>
       ELSE /\ model_calls' = Append(model_calls,
                                [i |-> i, xi_bin_trajs |-> xi_bins[i],
                                 milestones |-> milestones,
                                 frame_time |-> frame_time,
                                 num_milestones |-> num_milestones])
            /\ xi_bin_time_profiles' =
                  [xi_bin_time_profiles EXCEPT ![i] =
                      [zero |-> FALSE,
                       of |-> <<xi_bins[i], milestones, frame_time,
                                num_milestones>>]]
            /\ calls' = calls \o <<<<"model", i>>, <<"profile", i>>, <<"store", i>>>>
    /\ slab_writes' = Append(slab_writes, i)
    /\ bin_idx' = bin_idx + 1
    /\ UNCHANGED <<arg_vars, xi_bins_ranges, parse_vars, one_dim_trajs,
                   condensed_arg, grid_vars, bin_vars, frame_time, calc,
                   time_estimate, pc, err>>

\* lines 79-88, the body of the per-bin loop for bin i
ModelIteration(i) ==
    /\ model_calls' = Append(model_calls,
                         [i |-> i, xi_bin_trajs |-> xi_bins[i],
                          milestones |-> milestones,
                          frame_time |-> frame_time,
                          num_milestones |-> num_milestones])
    /\ xi_bin_time_profiles' = StoreSlab(xi_bin_time_profiles, i)
    /\ slab_writes' = Append(slab_writes, i)
    /\ calls' = calls \o <<<<"model", i>>, <<"profile", i>>, <<"store", i>>>>
    /\ bin_idx' = bin_idx + 1
    /\ UNCHANGED <<arg_vars, xi_bins_ranges, parse_vars, one_dim_trajs,
                   condensed_arg, grid_vars, bin_vars, frame_time, calc,
                   time_estimate, pc, err>>

\* lines 78-88, one iteration of the loop, in the order of range(num_xi_bins)
ModelBin ==
    /\ pc = "model"
    /\ bin_idx < num_xi_bins
    /\ ModelIteration(bin_idx)

\* The arguments with the ends of the CV range exchanged.
ExpanderArgumentsSwapped ==
    [xi_bin_time_profiles |-> xi_bin_time_profiles,
     force_constant |-> forceRAMD,
     beta |-> 0,
     min_cv_val |-> max_location,
     max_cv_val |-> min_location,
     starting_cv_val |-> starting_cv_val]

\* lines 92-95: the arguments of sigma_ramd.functional_expansion_1d_ramd
ExpanderArguments ==
    [xi_bin_time_profiles |-> xi_bin_time_profiles,
     force_constant |-> forceRAMD,
     beta |-> 0,
     min_cv_val |-> min_location,
     max_cv_val |-> max_location,
     starting_cv_val |-> starting_cv_val]

\* The expansion entered as soon as the array exists.
ExpandEarly ==
    /\ pc = "model"
    /\ bin_idx <= num_xi_bins
    /\ calc' = ExpanderArguments
    /\ time_estimate' = MakeSecondOrderTimeEstimate(ExpanderArguments)
    /\ calls' = calls \o <<<<"expand", 0>>, <<"estimate", 0>>>>
    /\ pc' = "done"
    /\ UNCHANGED <<arg_vars, xi_bins_ranges, parse_vars, one_dim_trajs,
                   condensed_arg, grid_vars, bin_vars, model_vars, err>>

\* lines 91-97
Expand ==
    /\ pc = "model"
    /\ bin_idx = num_xi_bins
    /\ calc' = ExpanderArguments
    /\ time_estimate' = MakeSecondOrderTimeEstimate(ExpanderArguments)
    /\ calls' = calls \o <<<<"expand", 0>>, <<"estimate", 0>>>>
    /\ pc' = "done"
    /\ UNCHANGED <<arg_vars, xi_bins_ranges, parse_vars, one_dim_trajs,
                   condensed_arg, grid_vars, bin_vars, model_vars, err>>

Next ==
    \/ Begin
    \/ ParseLogFile
    \/ Condense
    \/ BuildGrid
    \/ BinTrajectory
    \/ InitTimeProfiles
    \/ ModelBin
    \/ Expand

Spec == Init /\ [][Next]_vars

\* The per-bin loop with its iterations taken in any order.
ModelBinAnyOrder ==
    /\ pc = "model"
    /\ \E i \in 0..(num_xi_bins - 1) :
          /\ \A k \in 1..Len(slab_writes) : slab_writes[k] /= i
          /\ ModelIteration(i)

ParNext ==
    \/ Begin
    \/ ParseLogFile
    \/ Condense
    \/ BuildGrid
    \/ BinTrajectory
    \/ InitTimeProfiles
    \/ ModelBinAnyOrder
    \/ Expand

ParSpec == Init /\ [][ParNext]_vars

\* ------------------------------------------------------------- properties
Called(op) == \E k \in 1..Len(calls) : calls[k][1] = op

CountCalls(op) == Cardinality({k \in 1..Len(calls) : calls[k][1] = op})

\* The fragments of every file parsed so far, in file order.
AllParsedFragments ==
    Concat(parsed)

GridBuilt == pc \in {"bin", "model", "done"} \/ (pc = "error" /\ err = "Exception")

ValidCounts == num_milestones >= 2 /\ num_xi_bins >= 1

InUnitRange(x) == LE(<<-1, 1>>, x) /\ LE(x, <<1, 1>>)

\* A fragment some parsed file holds has a first-frame xi outside [-1, 1].
SomeFragmentOutOfRange ==
    \E t \in 1..Len(AllParsedFragments) :
        ~InUnitRange(Xi(AllParsedFragments[t].xis[1]))

\* C1: for valid counts and xi values, the fragment sequence handed to the
\* condenser is the concatenation, in file order, of the fragments of every
\* log file, and starting_cv_val is the CV of the first frame of the first
\* fragment of the first file.
C1_AllFragmentsCondensed ==
    (ValidCounts /\ ~SomeFragmentOutOfRange) =>
        /\ Called("condense") => condensed_arg = AllParsedFragments
        /\ GridBuilt => starting_cv_val = AllParsedFragments[1].cvs[1]

\* Two of the files parsed so far, at any two positions, report different
\* metadata.
Mismatch ==
    \E a \in 1..Len(reported), b \in 1..Len(reported) :
        reported[a] /= reported[b]

OnlyParsed == \A k \in 1..Len(calls) : calls[k][1] = "parse"

MismatchAborts(kind) ==
    /\ Mismatch => pc = "error" /\ err = kind /\ OnlyParsed
    /\ ~Mismatch => /\ err /= kind
                    /\ err /= "AssertionError"
                    /\ file_idx = Len(reported)
                    /\ Len(parsed) = Len(reported)
                    /\ trajectory_list = AllParsedFragments

FirstXi(trajectory) == trajectory.frames[1][2]

\* The places <<bin, position>> at which a fragment is held.
Placements(trajectory) ==
    UNION {{<<j, k>> : k \in {k \in 1..Len(xi_bins[j]) :
                                xi_bins[j][k].id = trajectory.id}} :
              j \in 0..(num_xi_bins - 1)}

RECURSIVE SumOfBinSizes(_)
SumOfBinSizes(j) ==
    IF j >= num_xi_bins THEN 0 ELSE Len(xi_bins[j]) + SumOfBinSizes(j + 1)

SameRational(a, b) == LE(a, b) /\ LE(b, a)

\* C3: with num_xi_bins >= 1 and every first-frame xi in [-1, 1], the binning
\* loop puts every condensed fragment in exactly one bin, once, so the bin
\* sizes sum to the number of fragments and the loop raises nothing; the bin
\* intervals are consecutive, start at -1.0 and end at 1.0.
C3_Partition ==
    /\ pc \in {"bin", "model", "done"} =>
          /\ \A t \in 1..Len(one_dim_trajs) :
                Cardinality(Placements(one_dim_trajs[t]))
                    = IF t <= traj_idx THEN 1 ELSE 0
          /\ SumOfBinSizes(0) = traj_idx
    /\ pc \in {"model", "done"} => SumOfBinSizes(0) = Len(one_dim_trajs)
    /\ (pc = "error" /\ err = "Exception") =>
          \/ num_xi_bins < 1
          \/ ~InUnitRange(FirstXi(one_dim_trajs[traj_idx + 1]))
    /\ (pc /= "begin" /\ num_xi_bins >= 1) =>
          /\ SameRational(xi_bins_ranges[0], <<-1, 1>>)
          /\ SameRational(xi_bins_ranges[num_xi_bins], <<1, 1>>)
          /\ \A j \in 0..(num_xi_bins - 1) :
                /\ ~LE(xi_bins_ranges[j + 1], xi_bins_ranges[j])
                /\ SameRational(xi_bins_ranges[j], <<2 * j - num_xi_bins, num_xi_bins>>)

C3_Witness ==
    /\ pc = "model"
    /\ num_xi_bins = 2
    /\ Len(xi_bins[0]) = 1
    /\ Len(xi_bins[1]) = 1
    /\ FirstXi(xi_bins[1][1]) = Xi(XiDen)

\* xi lies in the closed interval j of the uniform partition of [-1, 1]
\* into num_xi_bins intervals.
InClosedInterval(x, j) ==
    /\ x[1] * num_xi_bins >= (2 * j - num_xi_bins) * x[2]
    /\ x[1] * num_xi_bins <= (2 * (j + 1) - num_xi_bins) * x[2]

\* C4: a binned fragment is held by the first interval, in increasing index
\* order, whose closed range holds the xi of its first frame: a xi on the
\* boundary shared by bins j and j+1 goes to bin j and not to bin j+1.
C4_FirstMatch ==
    pc \in {"bin", "model", "done"} =>
        \A t \in 1..traj_idx :
            LET x == FirstXi(one_dim_trajs[t])
                S == {j \in 0..(num_xi_bins - 1) : InClosedInterval(x, j)}
            IN  /\ S /= {}
                /\ \A jk \in Placements(one_dim_trajs[t]) : jk[1] = SetMin(S)

C4_Witness ==
    /\ pc = "model"
    /\ num_xi_bins = 2
    /\ \E k \in 1..Len(xi_bins[0]) :
          /\ FirstXi(xi_bins[0][k]) = Xi(0)
          /\ InClosedInterval(Xi(0), 1)
    /\ \E k \in 1..Len(xi_bins[0]) :
          /\ Len(xi_bins[0][k].frames) = 2
          /\ LE(xi_bins[0][k].frames[1][2], <<-1, 4>>)
          /\ ~InClosedInterval(xi_bins[0][k].frames[2][2], 0)

\* C5: a run in which some fragment's first-frame xi lies outside [-1, 1]
\* never goes on to build a per-bin model or to invoke the expander: no
\* such fragment is passed over.
C5_OutOfRangeIsFatal ==
    SomeFragmentOutOfRange =>
        ~(Called("model") \/ Called("expand") \/ pc \in {"model", "done"})

InvalidConfiguration ==
    \/ num_milestones < 2
    \/ num_xi_bins < 1
    \/ (pc \notin {"begin", "parse"} /\ Len(AllParsedFragments) = 0)

\* C6: given one log file or more and xi values in [-1, 1], with
\* num_milestones < 2, num_xi_bins < 1 or no fragments the run fails with a
\* ConfigurationError before any binning, per-bin model construction or
\* expansion.
C6_ConfigurationError ==
    (/\ ramd_log_file_list >= 1
     /\ ~SomeFragmentOutOfRange
     /\ InvalidConfiguration) =>
        /\ ~(Called("bin") \/ Called("model") \/ Called("expand"))
        /\ pc \notin {"model", "done"}
        /\ (pc = "error" /\ ~Mismatch) => err = "ConfigurationError"

\* The call of the Milestoning Model Builder made for bin i, if any.
ModelCallsOf(i) == {k \in 1..Len(model_calls) : model_calls[k].i = i}

SeqOf(op, n) == [k \in 1..n |-> <<op, k - 1>>]

RECURSIVE PerBinCalls(_)
PerBinCalls(i) ==
    IF i >= num_xi_bins THEN <<>>
    ELSE <<<<"model", i>>, <<"profile", i>>, <<"store", i>>>> \o PerBinCalls(i + 1)

\* The stages of a run without error, in order.
ExpectedCalls ==
    SeqOf("parse", ramd_log_file_list)
        \o <<<<"condense", 0>>, <<"grid", 0>>>>
        \o SeqOf("bin", Len(one_dim_trajs))
        \o PerBinCalls(0)
        \o <<<<"expand", 0>>, <<"estimate", 0>>>>

IsPrefix(a, b) == Len(a) <= Len(b) /\ SubSeq(b, 1, Len(a)) = a

\* The slab of bin i, from the fragments of bin i and the grid alone.
SlabOfBin(i) ==
    IF xi_bins[i] = <<>> THEN Zeros
    ELSE [zero |-> FALSE,
          of |-> <<xi_bins[i], milestones, frame_time, num_milestones>>]

StagesInOrder ==
    /\ err = "none" => IsPrefix(calls, ExpectedCalls)
    /\ pc = "done" =>
          /\ err = "none"
          /\ calls = ExpectedCalls
          /\ slab_writes = [k \in 1..num_xi_bins |-> k - 1]
          /\ \A i \in 0..(num_xi_bins - 1) :
                calc.xi_bin_time_profiles[i] = SlabOfBin(i)
          /\ time_estimate = MakeSecondOrderTimeEstimate(calc)

\* The steps taken so far: every step of analyze_log adds to it.
StepsTaken ==
    Len(calls) + (IF pc = "begin" THEN 0 ELSE 1)
               + (IF pc \in {"model", "done", "error"} THEN 1 ELSE 0)

\* The most steps a run on these inputs takes.
StepBound ==
    ramd_log_file_list + Len(AllParsedFragments) + 3 * num_xi_bins + 6

WritesOf(i) == {k \in 1..Len(slab_writes) : slab_writes[k] = i}

\* The array the loop of lines 78-88 yields, run in the order of range().
RECURSIVE SequentialLoop(_, _)
SequentialLoop(profiles, i) ==
    IF i >= num_xi_bins THEN profiles
    ELSE SequentialLoop(StoreSlab(profiles, i), i + 1)

IndependentSlabs ==
    pc \in {"model", "done"} =>
        /\ \A i \in 0..(num_xi_bins - 1) :
              /\ Cardinality(WritesOf(i)) <= 1
              /\ xi_bin_time_profiles[i]
                    = IF WritesOf(i) /= {} THEN SlabOfBin(i) ELSE Zeros
        /\ pc = "done" =>
              /\ \A i \in 0..(num_xi_bins - 1) : Cardinality(WritesOf(i)) = 1
              /\ xi_bin_time_profiles
                    = SequentialLoop([i \in 0..(num_xi_bins - 1) |-> Zeros], 0)

OneSlabPerIteration ==
    (pc = "model" /\ pc' = "model") =>
        /\ xi_bins' = xi_bins
        /\ \E i \in 0..(num_xi_bins - 1) :
              /\ slab_writes' = Append(slab_writes, i)
              /\ \A k \in 0..(num_xi_bins - 1) :
                    k /= i => xi_bin_time_profiles'[k] = xi_bin_time_profiles[k]

C10_GridImmutable ==
    /\ GridBuilt =>
          /\ milestones = grid_ret.milestones
          /\ min_location = grid_ret.min_location
          /\ max_location = grid_ret.max_location
          /\ starting_cv_val = grid_ret.starting_cv_val
          /\ CountCalls("grid") = 1
    /\ \A k \in 1..Len(model_calls) :
          model_calls[k].milestones = grid_ret.milestones
    /\ pc = "done" =>
          /\ calc.min_cv_val = grid_ret.min_location
          /\ calc.max_cv_val = grid_ret.max_location
          /\ calc.starting_cv_val = grid_ret.starting_cv_val
          /\ \A k \in 1..Len(reported) : reported[k][2] = calc.force_constant

C10_Witness ==
    /\ pc = "done"
    /\ Len(parsed) = 2
    /\ Len(model_calls) = 2
    /\ calc.min_cv_val < calc.max_cv_val
    /\ calc.starting_cv_val /= calc.min_cv_val
    /\ calc.force_constant = 15

====
